---- MODULE Spec2Model ----
(***************************************************************************)
(* A model of the cdk-vue-artifact repository: the Lambda@Edge A/B cookie  *)
(* handler (cdk/lib/lambda/ab-lambda-function.js) and the stages declared  *)
(* by the pipeline stack (cdk/lib/cdk-vue-application-pipeline.ts).        *)
(*                                                                         *)
(* JavaScript strings that are searched, concatenated or fed back into a   *)
(* later request are modelled as sequences of one-character strings, so    *)
(* that indexOf is a real substring search.  Strings that are only         *)
(* compared for equality (keys, status, field names) stay TLA+ strings.    *)
(***************************************************************************)
EXTENDS Integers, Sequences, FiniteSets, TLC

VARIABLES inv, client, pipeline

vars == <<inv, client, pipeline>>

----------------------------------------------------------------------------
(* Bounds of the model.                                                    *)

\* Longest list of cookie header entries in an input request.
MaxCookies == 2
\* Number of handler invocations that may be in flight together.
NumInvocations == 2
\* Math.random() is modelled as n / RandDenom for n in 0 .. RandDenom-1.
RandDenom == 8
\* Number of pipeline executions that may be in flight together.
NumExecutions == 2
\* Number of requests a viewer sends.
MaxRequests == 3

----------------------------------------------------------------------------
(* Literals of the handler.                                                *)

cookieExperimentA == <<"X", "-", "E", "x", "p", "e", "r", "i", "m", "e", "n", "t", "-", "N", "a", "m", "e", "=", "A">>
cookieExperimentB == <<"X", "-", "E", "x", "p", "e", "r", "i", "m", "e", "n", "t", "-", "N", "a", "m", "e", "=", "B">>
groupBUri == <<"/", "b", "l", "u", "e", "/">>
groupAUri == <<"/">>

\* Math.random() < 0.75, with 0.75 = ThresholdNum / ThresholdDen.
ThresholdNum == 3
ThresholdDen == 4

\* The value read from a property that is not there.
Undefined == [undefined |-> TRUE]

\* let response = {status: '302', statusDescription: 'Found'}
InitialResponse == [status |-> "302", statusDescription |-> "Found"]

----------------------------------------------------------------------------
(* Input requests.                                                         *)

OtherCookie == <<"a", "=", "1">>
Separator == <<";", " ">>
LowerCaseMarker == <<"x", "-", "e", "x", "p", "e", "r", "i", "m", "e", "n", "t", "-", "n", "a", "m", "e", "=", "A">>

\* Raw cookie strings a viewer may send in one Cookie header entry.
CookieValues ==
    { <<>>,
      OtherCookie,
      LowerCaseMarker,
      cookieExperimentA,
      OtherCookie \o Separator \o cookieExperimentB,
      cookieExperimentB \o Separator \o cookieExperimentA }

\* A header entry is {key, value}; a malformed one carries no value.
CookieEntries ==
    {[key |-> "Cookie", value |-> v] : v \in CookieValues} \cup {[key |-> "Cookie"]}

CookieLists == UNION {[1..n -> CookieEntries] : n \in 0..MaxCookies}

Uris == {groupAUri, groupBUri}

BaseHeaders == [host |-> <<[key |-> "Host", value |-> <<"h">>]>>]

WithCookie(headers, list) == [h \in DOMAIN headers \cup {"cookie"} |->
                                 IF h = "cookie" THEN list ELSE headers[h]]

\* Every request of the model: without a header map, without a cookie
\* header, and with each list of cookie entries.
Requests ==
    {[uri |-> u] : u \in Uris}
      \cup {[uri |-> u, headers |-> BaseHeaders] : u \in Uris}
      \cup {[uri |-> u, headers |-> WithCookie(BaseHeaders, l)] :
                u \in Uris, l \in CookieLists}

Draws == 0..(RandDenom - 1)

NoDraw == 0 - 1

----------------------------------------------------------------------------
(* Pure helpers of the handler.                                            *)

Min(S) == CHOOSE x \in S : \A y \in S : x <= y

\* String.prototype.indexOf(t): index of the first occurrence, or -1.
indexOf(s, t) ==
    LET hits == {p \in 0..(Len(s) - Len(t)) : SubSeq(s, p + 1, p + Len(t)) = t}
    IN  IF hits = {} THEN 0 - 1 ELSE Min(hits)

\* request.headers
headersOf(request) ==
    IF "headers" \in DOMAIN request THEN request.headers ELSE Undefined

\* Variant of matchEntry: the value must be the marker itself.
matchEntry_ExactMatch(entry) ==
    IF "value" \notin DOMAIN entry THEN "throw"
    ELSE IF entry.value = cookieExperimentA THEN "A"
    ELSE IF entry.value = cookieExperimentB THEN "B"
    ELSE "next"

\* The body of the for loop for one entry: which branch it takes.
\* "throw" is the TypeError of reading indexOf of an undefined value.
matchEntry(entry) ==
    IF "value" \notin DOMAIN entry THEN "throw"
    ELSE IF indexOf(entry.value, cookieExperimentA) >= 0 THEN "A"
    ELSE IF indexOf(entry.value, cookieExperimentB) >= 0 THEN "B"
    ELSE "next"

\* Variant of throwDice: Math.random() <= 0.75.
throwDice_Inclusive(n) ==
    IF ThresholdDen * n <= ThresholdNum * RandDenom
    THEN cookieExperimentA ELSE cookieExperimentB

\* if (Math.random() < 0.75) A else B, with Math.random() = n / RandDenom.
throwDice(n) ==
    IF ThresholdDen * n < ThresholdNum * RandDenom
    THEN cookieExperimentA ELSE cookieExperimentB

\* Variant of redirectHeaders: the Location test is on experiment A.
redirectHeaders_SwappedLocation(selectedExperiment) ==
    ("location" :> <<[key |-> "Location",
                      value |-> IF selectedExperiment = cookieExperimentA
                                THEN groupBUri ELSE groupAUri]>>)
    @@ ("set-cookie" :> <<[key |-> "Set-Cookie", value |-> selectedExperiment]>>)

\* Variant of redirectHeaders: the cookie carries a Path attribute.
redirectHeaders_WithPath(selectedExperiment) ==
    ("location" :> <<[key |-> "Location",
                      value |-> IF selectedExperiment = cookieExperimentB
                                THEN groupBUri ELSE groupAUri]>>)
    @@ ("set-cookie" :> <<[key |-> "Set-Cookie",
                           value |-> selectedExperiment \o <<";", " ", "P", "a", "t", "h", "=", "/">>]>>)

\* response.headers = {'location': [...], 'set-cookie': [...]}
redirectHeaders(selectedExperiment) ==
    ("location" :> <<[key |-> "Location",
                      value |-> IF selectedExperiment = cookieExperimentB
                                THEN groupBUri ELSE groupAUri]>>)
    @@ ("set-cookie" :> <<[key |-> "Set-Cookie", value |-> selectedExperiment]>>)

redirectResponse(selectedExperiment) ==
    [status |-> InitialResponse.status,
     statusDescription |-> InitialResponse.statusDescription,
     headers |-> redirectHeaders(selectedExperiment)]

----------------------------------------------------------------------------
(* The handler as one function of the request and the random draw.         *)

RECURSIVE scanCookies(_, _)
scanCookies(cookie, i) ==
    IF i >= Len(cookie) THEN [outcome |-> "none", at |-> i]
    ELSE LET m == matchEntry(cookie[i + 1])
         IN  IF m = "next" THEN scanCookies(cookie, i + 1)
             ELSE [outcome |-> m, at |-> i]

handler(request, n) ==
    LET headers == headersOf(request)
        threwAtHeaders == headers = Undefined
        scanned == IF threwAtHeaders \/ "cookie" \notin DOMAIN headers
                   THEN [outcome |-> "none", at |-> 0]
                   ELSE scanCookies(headers.cookie, 0)
    IN  IF threwAtHeaders \/ scanned.outcome = "throw"
        THEN [threw |-> TRUE, callbacks |-> 0, draws |-> 0,
              selectedExperiment |-> cookieExperimentA, response |-> Undefined]
        ELSE IF scanned.outcome = "none"
        THEN [threw |-> FALSE, callbacks |-> 1, draws |-> 1,
              selectedExperiment |-> throwDice(n),
              response |-> redirectResponse(throwDice(n))]
        ELSE [threw |-> FALSE, callbacks |-> 1, draws |-> 0,
              selectedExperiment |-> IF scanned.outcome = "A"
                                     THEN cookieExperimentA ELSE cookieExperimentB,
              response |-> request]

----------------------------------------------------------------------------
(* The handler as steps of an invocation.  Every variable of the handler   *)
(* is a local of the invocation; inv[k] holds them for invocation k.       *)

Slots == 1..NumInvocations

IdleInvocation ==
    [pc |-> "idle", request |-> Undefined, headers |-> Undefined,
     selectedExperiment |-> cookieExperimentA, cookiePresent |-> FALSE,
     i |-> 0, response |-> Undefined, r |-> NoDraw, draws |-> 0,
     callbacks |-> 0, error |-> "unset", result |-> Undefined]

\* Lines 4-22: the locals of a fresh invocation.
Enter(k, request) ==
    /\ inv[k].pc = "idle"
    /\ inv' = [inv EXCEPT ![k] =
                  [IdleInvocation EXCEPT !.pc = "check",
                                         !.request = request,
                                         !.headers = headersOf(request),
                                         !.response = InitialResponse]]

\* Variant of CheckCookieHeader: without a cookie header the default
\* experiment counts as selected.
CheckCookieHeader_DefaultVariant(k) ==
    /\ inv[k].pc = "check"
    /\ inv' = [inv EXCEPT ![k] =
                  IF inv[k].headers = Undefined THEN [@ EXCEPT !.pc = "thrown"]
                  ELSE IF "cookie" \in DOMAIN inv[k].headers THEN [@ EXCEPT !.pc = "scan"]
                  ELSE [@ EXCEPT !.pc = "branch", !.cookiePresent = TRUE]]
    /\ UNCHANGED <<client, pipeline>>

\* Line 23: if (headers.cookie)
CheckCookieHeader(k) ==
    /\ inv[k].pc = "check"
    /\ inv' = [inv EXCEPT ![k].pc =
                  IF inv[k].headers = Undefined THEN "thrown"
                  ELSE IF "cookie" \in DOMAIN inv[k].headers THEN "scan"
                  ELSE "branch"]
    /\ UNCHANGED <<client, pipeline>>

\* Variant of ScanCookie: the loop has no break, the last match wins.
ScanCookie_NoBreak(k) ==
    /\ inv[k].pc = "scan"
    /\ LET cookie == inv[k].headers.cookie
           i == inv[k].i
       IN  IF i >= Len(cookie)
           THEN inv' = [inv EXCEPT ![k].pc = "branch"]
           ELSE LET m == matchEntry(cookie[i + 1])
                IN  CASE m = "throw" -> inv' = [inv EXCEPT ![k].pc = "thrown"]
                      [] m = "A" -> inv' = [inv EXCEPT ![k] =
                             [@ EXCEPT !.selectedExperiment = cookieExperimentA,
                                       !.cookiePresent = TRUE, !.i = i + 1]]
                      [] m = "B" -> inv' = [inv EXCEPT ![k] =
                             [@ EXCEPT !.selectedExperiment = cookieExperimentB,
                                       !.cookiePresent = TRUE, !.i = i + 1]]
                      [] OTHER -> inv' = [inv EXCEPT ![k].i = i + 1]
    /\ UNCHANGED <<client, pipeline>>

\* Lines 25-37: one evaluation of the loop condition and body.
ScanCookie(k) ==
    /\ inv[k].pc = "scan"
    /\ LET cookie == inv[k].headers.cookie
           i == inv[k].i
       IN  IF i >= Len(cookie)
           THEN inv' = [inv EXCEPT ![k].pc = "branch"]
           ELSE LET m == matchEntry(cookie[i + 1])
                IN  CASE m = "throw" -> inv' = [inv EXCEPT ![k].pc = "thrown"]
                      [] m = "A" -> inv' = [inv EXCEPT ![k] =
                             [@ EXCEPT !.selectedExperiment = cookieExperimentA,
                                       !.cookiePresent = TRUE, !.pc = "branch"]]
                      [] m = "B" -> inv' = [inv EXCEPT ![k] =
                             [@ EXCEPT !.selectedExperiment = cookieExperimentB,
                                       !.cookiePresent = TRUE, !.pc = "branch"]]
                      [] OTHER -> inv' = [inv EXCEPT ![k].i = i + 1]
    /\ UNCHANGED <<client, pipeline>>

\* Lines 41-61: no cookie found, one draw, the redirect is built.
AssignRandomly(k, n) ==
    /\ inv[k].pc = "branch"
    /\ ~inv[k].cookiePresent
    /\ LET selected == throwDice(n)
       IN  inv' = [inv EXCEPT ![k] =
                      [@ EXCEPT !.r = n, !.draws = @ + 1,
                                !.selectedExperiment = selected,
                                !.response = inv[k].response
                                               @@ [headers |-> redirectHeaders(selected)],
                                !.pc = "emit"]]
    /\ UNCHANGED <<client, pipeline>>

\* Variant of PassThrough: the assignment response = request is missing.
PassThrough_KeepsRedirect(k) ==
    /\ inv[k].pc = "branch"
    /\ inv[k].cookiePresent
    /\ inv' = [inv EXCEPT ![k].pc = "emit"]
    /\ UNCHANGED <<client, pipeline>>

\* Variant of PassThrough: response is one variable of the module, shared
\* by the invocations in flight.
PassThrough_SharedResponse(k) ==
    /\ inv[k].pc = "branch"
    /\ inv[k].cookiePresent
    /\ inv' = [j \in Slots |->
                  IF j = k THEN [inv[j] EXCEPT !.response = inv[k].request, !.pc = "emit"]
                  ELSE IF inv[j].pc = "idle" THEN inv[j]
                  ELSE [inv[j] EXCEPT !.response = inv[k].request]]
    /\ UNCHANGED <<client, pipeline>>

\* Lines 62-66: response = request.
PassThrough(k) ==
    /\ inv[k].pc = "branch"
    /\ inv[k].cookiePresent
    /\ inv' = [inv EXCEPT ![k] =
                  [@ EXCEPT !.response = inv[k].request, !.pc = "emit"]]
    /\ UNCHANGED <<client, pipeline>>

\* Lines 68-70: callback(null, response).
Callback(k) ==
    /\ inv[k].pc = "emit"
    /\ inv' = [inv EXCEPT ![k] =
                  [@ EXCEPT !.callbacks = @ + 1, !.error = "null",
                            !.result = inv[k].response, !.pc = "done"]]
    /\ UNCHANGED <<client, pipeline>>

\* The runtime takes the result (or the exception) and the invocation ends.
Leave(k) ==
    /\ inv[k].pc \in {"done", "thrown"}
    /\ inv' = [inv EXCEPT ![k] = IdleInvocation]

----------------------------------------------------------------------------
(* The viewer: a browser that sends its requests one after the other,      *)
(* follows a redirect to its Location and, when it stores cookies, keeps   *)
(* the name=value pair of a Set-Cookie and sends it back.                  *)

\* The name=value pair of a Set-Cookie string (attributes after ";" dropped).
parseSetCookie(s) ==
    LET semi == indexOf(s, <<";">>)
        pair == IF semi < 0 THEN s ELSE SubSeq(s, 1, semi)
        eq == indexOf(pair, <<"=">>)
    IN  [name |-> SubSeq(pair, 1, eq), value |-> SubSeq(pair, eq + 2, Len(pair))]

\* A stored cookie replaces the one of the same name, or is added last.
storeCookie(jar, c) ==
    IF \E j \in 1..Len(jar) : jar[j].name = c.name
    THEN [j \in 1..Len(jar) |-> IF jar[j].name = c.name THEN c ELSE jar[j]]
    ELSE Append(jar, c)

\* The Cookie header string: name=value pairs joined by "; ".
RECURSIVE cookieString(_)
cookieString(jar) ==
    IF jar = <<>> THEN <<>>
    ELSE IF Len(jar) = 1 THEN jar[1].name \o <<"=">> \o jar[1].value
    ELSE jar[1].name \o <<"=">> \o jar[1].value \o Separator \o cookieString(Tail(jar))

\* The request CloudFront hands the handler for a viewer with this jar.
ViewerRequest(jar, uri) ==
    IF jar = <<>> THEN [uri |-> uri, headers |-> BaseHeaders]
    ELSE [uri |-> uri,
          headers |-> WithCookie(BaseHeaders,
                                 <<[key |-> "Cookie", value |-> cookieString(jar)]>>)]

UnrelatedCookie == [name |-> <<"a">>, value |-> <<"1">>]

NewClient(stores, jar) ==
    [stores |-> stores, jar |-> jar, follow |-> <<>>, waiting |-> FALSE,
     sent |-> 0, assigned |-> <<>>, redirects |-> 0, served |-> 0,
     lastSetCookie |-> <<>>]

ClientSend(uri) ==
    /\ ~client.waiting
    /\ client.sent < MaxRequests
    /\ client.follow # <<>> => uri = client.follow
    /\ Enter(1, ViewerRequest(client.jar, uri))
    /\ client' = [client EXCEPT !.waiting = TRUE, !.sent = @ + 1]
    /\ UNCHANGED pipeline

ClientReceive ==
    /\ client.waiting
    /\ inv[1].pc = "done"
    /\ Leave(1)
    /\ LET result == inv[1].result
       IN  IF "status" \in DOMAIN result
           THEN LET setCookie == result.headers["set-cookie"][1].value
                IN  client' = [client EXCEPT
                       !.waiting = FALSE,
                       !.jar = IF client.stores
                               THEN storeCookie(@, parseSetCookie(setCookie)) ELSE @,
                       !.follow = result.headers["location"][1].value,
                       !.assigned = IF @ = <<>> THEN setCookie ELSE @,
                       !.redirects = @ + 1,
                       !.lastSetCookie = setCookie]
           ELSE client' = [client EXCEPT !.waiting = FALSE, !.follow = <<>>,
                                         !.served = @ + 1]
    /\ UNCHANGED pipeline

----------------------------------------------------------------------------
(* The pipeline the stack declares, and its executions.  CodePipeline runs *)
(* the stages of an execution in their declared order; a stage is entered  *)
(* when the one before it has succeeded, and a failed or rejected action   *)
(* stops the execution.                                                    *)

Action(name, kind, inputs, outputs) ==
    [name |-> name, kind |-> kind, inputs |-> inputs, outputs |-> outputs]

\* new CdkPipeline({sourceAction, synthAction, selfMutating: true})
CdkPipelineStages ==
    << [name |-> "Source",
        action |-> Action("GitHubSource", "source", {}, {"RepoSource"})],
       [name |-> "Build",
        action |-> Action("BuildCdk", "build", {"RepoSource"}, {"BuildOutput"})],
       [name |-> "UpdatePipeline",
        action |-> Action("SelfMutate", "build", {"BuildOutput"}, {})] >>

\* cdkPipeline.addStage(name).addActions(action)
addStage(stages, name, action) == Append(stages, [name |-> name, action |-> action])

\* Variant of PipelineStages: DeployStage is added before ApprovalStage.
PipelineStages_DeployBeforeApproval ==
    addStage(
      addStage(
        addStage(CdkPipelineStages,
                 "BuildVue",
                 Action("BuildVue", "build", {"RepoSource"}, {"VueBuildOutput"})),
        "DeployStage",
        Action("DeployVue", "deploy", {"VueBuildOutput"}, {})),
      "ApprovalStage",
      Action("ApproveDeploy", "approval", {}, {}))

\* The stages in the order the constructor adds them.
PipelineStages ==
    addStage(
      addStage(
        addStage(CdkPipelineStages,
                 "BuildVue",
                 Action("BuildVue", "build", {"RepoSource"}, {"VueBuildOutput"})),
        "ApprovalStage",
        Action("ApproveDeploy", "approval", {}, {})),
      "DeployStage",
      Action("DeployVue", "deploy", {"VueBuildOutput"}, {}))

Executions == 1..NumExecutions

IdleExecution == [status |-> "idle", stage |-> 0, artifacts |-> {}, log |-> <<>>,
                  approval |-> "none"]

NewPipeline == [exec |-> [e \in Executions |-> IdleExecution], bucket |-> 0]

CurrentAction(e) == PipelineStages[pipeline.exec[e].stage].action

\* After the action of the current stage has succeeded.
Advanced(x, action) ==
    [x EXCEPT !.artifacts = @ \cup action.outputs,
              !.log = Append(@, action.name),
              !.stage = IF @ = Len(PipelineStages) THEN @ ELSE @ + 1,
              !.status = IF x.stage = Len(PipelineStages) THEN "succeeded" ELSE @]

\* A push to the branch starts an execution at the first stage.
StartExecution(e) ==
    /\ pipeline.exec[e].status = "idle"
    /\ pipeline' = [pipeline EXCEPT !.exec[e] =
                       [IdleExecution EXCEPT !.status = "running", !.stage = 1]]
    /\ UNCHANGED <<inv, client>>

\* A source or build action succeeds and its outputs become artifacts.
RunAction(e) ==
    /\ pipeline.exec[e].status = "running"
    /\ CurrentAction(e).kind \in {"source", "build"}
    /\ CurrentAction(e).inputs \subseteq pipeline.exec[e].artifacts
    /\ pipeline' = [pipeline EXCEPT !.exec[e] = Advanced(@, CurrentAction(e))]
    /\ UNCHANGED <<inv, client>>

\* A build or test command fails: the execution stops.
FailAction(e) ==
    /\ pipeline.exec[e].status = "running"
    /\ CurrentAction(e).kind = "build"
    /\ pipeline' = [pipeline EXCEPT !.exec[e].status = "failed"]
    /\ UNCHANGED <<inv, client>>

\* ApproveDeploy is approved by a person.
Approve(e) ==
    /\ pipeline.exec[e].status = "running"
    /\ CurrentAction(e).kind = "approval"
    /\ pipeline' = [pipeline EXCEPT !.exec[e] =
                       Advanced([@ EXCEPT !.approval = "approved"], CurrentAction(e))]
    /\ UNCHANGED <<inv, client>>

\* ApproveDeploy is rejected or times out: the execution stops.
Reject(e) ==
    /\ pipeline.exec[e].status = "running"
    /\ CurrentAction(e).kind = "approval"
    /\ pipeline' = [pipeline EXCEPT !.exec[e] =
                       [@ EXCEPT !.approval = "rejected", !.status = "failed"]]
    /\ UNCHANGED <<inv, client>>

\* DeployVue writes its input artifact to the bucket.
Deploy(e) ==
    /\ pipeline.exec[e].status = "running"
    /\ CurrentAction(e).kind = "deploy"
    /\ CurrentAction(e).inputs \subseteq pipeline.exec[e].artifacts
    /\ pipeline' = [pipeline EXCEPT !.exec[e] = Advanced(@, CurrentAction(e)),
                                    !.bucket = e]
    /\ UNCHANGED <<inv, client>>

----------------------------------------------------------------------------
(* Spec: one invocation at a time, over every request of the model.        *)

Init ==
    /\ inv = [k \in Slots |-> IdleInvocation]
    /\ client = NewClient(TRUE, <<>>)
    /\ pipeline = NewPipeline

Invoke(k, request) == Enter(k, request) /\ UNCHANGED <<client, pipeline>>

Finish(k) == Leave(k) /\ UNCHANGED <<client, pipeline>>

Next ==
    \/ \E request \in Requests : Invoke(1, request)
    \/ CheckCookieHeader(1)
    \/ ScanCookie(1)
    \/ \E n \in Draws : AssignRandomly(1, n)
    \/ PassThrough(1)
    \/ Callback(1)
    \/ Finish(1)

Spec == Init /\ [][Next]_vars

----------------------------------------------------------------------------
(* Vocabulary of the properties, stated on requests and results without    *)
(* the handler's own helpers.                                              *)

Contains(s, t) == \E p \in 1..(Len(s) - Len(t) + 1) : SubSeq(s, p, p + Len(t) - 1) = t

HasHeaderMap(request) == "headers" \in DOMAIN request

CookieListOf(request) ==
    IF HasHeaderMap(request) /\ "cookie" \in DOMAIN request.headers
    THEN request.headers.cookie ELSE <<>>

HasValue(entry) == "value" \in DOMAIN entry

EntryHas(entry, marker) == HasValue(entry) /\ Contains(entry.value, marker)

EntryRecognized(entry) ==
    EntryHas(entry, cookieExperimentA) \/ EntryHas(entry, cookieExperimentB)

HasMarker(request, marker) ==
    \E j \in 1..Len(CookieListOf(request)) : EntryHas(CookieListOf(request)[j], marker)

Recognized(request) ==
    HasMarker(request, cookieExperimentA) \/ HasMarker(request, cookieExperimentB)

\* Index (from 1) of the first entry that contains a marker.
FirstMarked(request) ==
    Min({j \in 1..Len(CookieListOf(request)) : EntryRecognized(CookieListOf(request)[j])})

\* A request with a marker whose header map is there and whose entries up
\* to the first marked one each carry a string value.
MarkedRequest(request) ==
    /\ HasHeaderMap(request)
    /\ Recognized(request)
    /\ \A j \in 1..FirstMarked(request) : HasValue(CookieListOf(request)[j])

\* A request of the data model without a marker: no cookie header, an empty
\* list, or entries whose values are empty or contain neither marker.
UnmarkedRequest(request) ==
    /\ HasHeaderMap(request)
    /\ \A j \in 1..Len(CookieListOf(request)) :
          HasValue(CookieListOf(request)[j]) /\ ~EntryRecognized(CookieListOf(request)[j])

Ended(k) == inv[k].pc \in {"done", "thrown"}

IsRedirect(result) == "status" \in DOMAIN result

LocationOf(result) == result.headers["location"][1].value

SetCookieOf(result) == result.headers["set-cookie"][1].value

----------------------------------------------------------------------------
(* C1 *)

\* C1: an invocation on a request with a marker ends by handing the callback
\* the input request itself (no status, no headers of a redirect, no draw);
\* when only one of the two markers occurs in the cookies, the selected
\* experiment is that marker.
C1_MarkedPassThrough ==
    \A k \in Slots :
        (Ended(k) /\ MarkedRequest(inv[k].request)) =>
            /\ inv[k].pc = "done"
            /\ inv[k].result = inv[k].request
            /\ ~IsRedirect(inv[k].result)
            /\ inv[k].draws = 0
            /\ inv[k].r = NoDraw
            /\ (HasMarker(inv[k].request, cookieExperimentA)
                  /\ ~HasMarker(inv[k].request, cookieExperimentB))
                 => inv[k].selectedExperiment = cookieExperimentA
            /\ (HasMarker(inv[k].request, cookieExperimentB)
                  /\ ~HasMarker(inv[k].request, cookieExperimentA))
                 => inv[k].selectedExperiment = cookieExperimentB

C1_Witness ==
    \E k \in Slots :
        /\ inv[k].pc = "done"
        /\ MarkedRequest(inv[k].request)
        /\ Len(CookieListOf(inv[k].request)) = 2
        /\ HasMarker(inv[k].request, cookieExperimentB)
        /\ ~HasMarker(inv[k].request, cookieExperimentA)
        /\ inv[k].result = inv[k].request
        /\ inv[k].selectedExperiment = cookieExperimentB

----------------------------------------------------------------------------
(* C2 *)

\* The request that has a header map and no cookie header.
NoCookieRequest(uri) == [uri |-> uri, headers |-> BaseHeaders]

\* C2: an invocation on a request without a marker ends by handing the
\* callback a 302 "Found" whose Set-Cookie is one of the two markers and
\* whose Location is "/" exactly for marker A and "/blue/" exactly for
\* marker B; it is the result the same draw gives a request that has no
\* cookie header.
C2_UnmarkedRedirect ==
    \A k \in Slots :
        (Ended(k) /\ UnmarkedRequest(inv[k].request)) =>
            /\ inv[k].pc = "done"
            /\ IsRedirect(inv[k].result)
            /\ inv[k].result.status = "302"
            /\ inv[k].result.statusDescription = "Found"
            /\ SetCookieOf(inv[k].result) \in {cookieExperimentA, cookieExperimentB}
            /\ LocationOf(inv[k].result) = groupAUri
                 <=> SetCookieOf(inv[k].result) = cookieExperimentA
            /\ LocationOf(inv[k].result) = groupBUri
                 <=> SetCookieOf(inv[k].result) = cookieExperimentB
            /\ inv[k].result = handler(NoCookieRequest(inv[k].request.uri), inv[k].r).response

C2_Witness ==
    \E k \in Slots :
        /\ inv[k].pc = "done"
        /\ UnmarkedRequest(inv[k].request)
        /\ Len(CookieListOf(inv[k].request)) = 2
        /\ CookieListOf(inv[k].request)[1].value = <<>>
        /\ CookieListOf(inv[k].request)[2].value = LowerCaseMarker
        /\ SetCookieOf(inv[k].result) = cookieExperimentB
        /\ LocationOf(inv[k].result) = groupBUri

----------------------------------------------------------------------------
(* C4 *)

\* C4: every invocation completes by calling the callback exactly once with
\* no error and with the request or a redirect; none ends in an exception.
C4_NeverThrows ==
    \A k \in Slots :
        /\ inv[k].pc # "thrown"
        /\ inv[k].pc = "done" =>
              /\ inv[k].callbacks = 1
              /\ inv[k].error = "null"
              /\ inv[k].result = inv[k].request \/ IsRedirect(inv[k].result)

----------------------------------------------------------------------------
(* C5 *)

\* C5: the selected experiment is decided by the lowest-index entry that
\* contains a marker: A when that entry contains marker A, B when it
\* contains only marker B; the scan stops at that entry, so no later entry
\* is read.
C5_FirstMatchWins ==
    \A k \in Slots :
        (Ended(k) /\ MarkedRequest(inv[k].request)) =>
            LET first == FirstMarked(inv[k].request)
                entry == CookieListOf(inv[k].request)[first]
            IN  /\ inv[k].pc = "done"
                /\ inv[k].cookiePresent
                /\ inv[k].i = first - 1
                /\ EntryHas(entry, cookieExperimentA)
                     => inv[k].selectedExperiment = cookieExperimentA
                /\ ~EntryHas(entry, cookieExperimentA)
                     => inv[k].selectedExperiment = cookieExperimentB

\* An entry with only marker B, then an entry with marker A: B is selected.
C5_Witness ==
    \E k \in Slots :
        /\ inv[k].pc = "done"
        /\ Len(CookieListOf(inv[k].request)) = 2
        /\ EntryHas(CookieListOf(inv[k].request)[1], cookieExperimentB)
        /\ ~EntryHas(CookieListOf(inv[k].request)[1], cookieExperimentA)
        /\ EntryHas(CookieListOf(inv[k].request)[2], cookieExperimentA)
        /\ inv[k].selectedExperiment = cookieExperimentB
        /\ inv[k].result = inv[k].request

----------------------------------------------------------------------------
(* C6 *)

\* C6: an invocation that found no marker has made exactly one draw n, and
\* selected A exactly when n / RandDenom < 3/4, B otherwise (so B at the
\* boundary n / RandDenom = 3/4), whatever the request was.
C6_ThresholdSplit ==
    \A k \in Slots :
        /\ (inv[k].pc \in {"emit", "done"} /\ ~inv[k].cookiePresent) =>
              /\ inv[k].draws = 1
              /\ inv[k].r \in Draws
              /\ inv[k].selectedExperiment = cookieExperimentA <=> 4 * inv[k].r < 3 * RandDenom
              /\ inv[k].selectedExperiment = cookieExperimentB <=> 4 * inv[k].r >= 3 * RandDenom
              /\ SetCookieOf(inv[k].response) = inv[k].selectedExperiment
        /\ (Ended(k) /\ UnmarkedRequest(inv[k].request)) =>
              inv[k].pc = "done" /\ inv[k].draws = 1 /\ ~inv[k].cookiePresent

\* The boundary draw 0.75 on a request whose cookies hold no marker.
C6_Witness ==
    \E k \in Slots :
        /\ inv[k].pc = "done"
        /\ 4 * inv[k].r = 3 * RandDenom
        /\ Len(CookieListOf(inv[k].request)) = 1
        /\ inv[k].request.uri = groupBUri
        /\ inv[k].selectedExperiment = cookieExperimentB

----------------------------------------------------------------------------
(* C7 *)

\* C7 as stated: the header map of a redirect has exactly the names
\* Location and Set-Cookie.
C7_CapitalisedNames ==
    \A k \in Slots :
        (inv[k].pc = "done" /\ IsRedirect(inv[k].result)) =>
            DOMAIN inv[k].result.headers = {"Location", "Set-Cookie"}

\* C7 amended: a redirect has exactly the fields status = "302",
\* statusDescription = "Found" and headers; the header map has exactly the
\* lower-case names location and set-cookie, each a one-element list whose
\* entry is {key: "Location", value: "/" or "/blue/"} respectively
\* {key: "Set-Cookie", value: one of the two markers and nothing more}.
C7_RedirectShape ==
    \A k \in Slots :
        (inv[k].pc = "done" /\ IsRedirect(inv[k].result)) =>
            LET res == inv[k].result
            IN  /\ DOMAIN res = {"status", "statusDescription", "headers"}
                /\ res.status = "302"
                /\ res.statusDescription = "Found"
                /\ DOMAIN res.headers = {"location", "set-cookie"}
                /\ Len(res.headers["location"]) = 1
                /\ Len(res.headers["set-cookie"]) = 1
                /\ DOMAIN res.headers["location"][1] = {"key", "value"}
                /\ DOMAIN res.headers["set-cookie"][1] = {"key", "value"}
                /\ res.headers["location"][1].key = "Location"
                /\ res.headers["location"][1].value \in {groupAUri, groupBUri}
                /\ res.headers["set-cookie"][1].key = "Set-Cookie"
                /\ res.headers["set-cookie"][1].value \in {cookieExperimentA, cookieExperimentB}

C7_Witness ==
    \E k \in Slots :
        /\ inv[k].pc = "done"
        /\ IsRedirect(inv[k].result)
        /\ "location" \in DOMAIN inv[k].result.headers
        /\ LocationOf(inv[k].result) = groupBUri
        /\ SetCookieOf(inv[k].result) = cookieExperimentB

----------------------------------------------------------------------------
(* SpecConcurrent: NumInvocations invocations in flight together, their    *)
(* steps interleaved in any order.                                         *)

CookieHeader(list) == [uri |-> groupAUri, headers |-> WithCookie(BaseHeaders, list)]

Entry(value) == [key |-> "Cookie", value |-> value]

\* One request of each kind the handler tells apart.
ConcRequests ==
    { [uri |-> groupAUri],
      NoCookieRequest(groupAUri),
      CookieHeader(<<Entry(<<>>)>>),
      CookieHeader(<<Entry(cookieExperimentA)>>),
      CookieHeader(<<Entry(OtherCookie \o Separator \o cookieExperimentB)>>),
      CookieHeader(<<Entry(LowerCaseMarker),
                     Entry(cookieExperimentB \o Separator \o cookieExperimentA)>>),
      CookieHeader(<<[key |-> "Cookie"]>>) }

NextConcurrent ==
    \/ \E k \in Slots, request \in ConcRequests : Invoke(k, request)
    \/ \E k \in Slots : CheckCookieHeader(k)
    \/ \E k \in Slots : ScanCookie(k)
    \/ \E k \in Slots, n \in Draws : AssignRandomly(k, n)
    \/ \E k \in Slots : PassThrough(k)
    \/ \E k \in Slots : Callback(k)
    \/ \E k \in Slots : Finish(k)

SpecConcurrent == Init /\ [][NextConcurrent]_vars

----------------------------------------------------------------------------
(* C8 *)

\* What invocation k ends with is what the handler, run alone on k's
\* request with k's draw, ends with.
AsIfAlone(k) ==
    LET alone == handler(inv[k].request, inv[k].r)
    IN  /\ inv[k].pc = "thrown" => alone.threw
        /\ inv[k].pc = "done" =>
              /\ ~alone.threw
              /\ inv[k].result = alone.response
              /\ inv[k].selectedExperiment = alone.selectedExperiment
              /\ inv[k].draws = alone.draws
              /\ inv[k].callbacks = alone.callbacks

\* C8: with invocations interleaved in any order, each one's outcome is the
\* outcome of running it alone on its own request and draw, and no step
\* changes the locals of more than one invocation.
C8_Isolated ==
    /\ [](\A k \in Slots : AsIfAlone(k))
    /\ [][Cardinality({k \in Slots : inv'[k] # inv[k]}) <= 1]_vars

\* Two invocations in flight together, one redirected and one passed through.
C8_Witness ==
    \E j, k \in Slots :
        /\ j # k
        /\ inv[j].pc = "done" /\ IsRedirect(inv[j].result)
        /\ inv[k].pc = "done" /\ inv[k].result = inv[k].request

----------------------------------------------------------------------------
(* SpecClient: one viewer and the invocations its requests cause.          *)

InitClient ==
    /\ inv = [k \in Slots |-> IdleInvocation]
    /\ client \in {NewClient(stores, jar) :
                      stores \in BOOLEAN, jar \in {<<>>, <<UnrelatedCookie>>}}
    /\ pipeline = NewPipeline

NextClient ==
    \/ \E uri \in Uris : ClientSend(uri)
    \/ CheckCookieHeader(1)
    \/ ScanCookie(1)
    \/ \E n \in Draws : AssignRandomly(1, n)
    \/ PassThrough(1)
    \/ Callback(1)
    \/ ClientReceive

SpecClient == InitClient /\ [][NextClient]_vars

----------------------------------------------------------------------------
(* C3 *)

\* C3: once a viewer that stores cookies has received a redirect, every
\* later request of it is passed through with the assigned experiment
\* selected, without a draw; it receives no second redirect and no other
\* Set-Cookie.
C3_StickyAssignment ==
    (client.stores /\ client.assigned # <<>>) =>
        /\ client.redirects = 1
        /\ client.lastSetCookie = client.assigned
        /\ inv[1].pc # "thrown"
        /\ inv[1].pc \in {"emit", "done"} =>
              /\ inv[1].response = inv[1].request
              /\ ~IsRedirect(inv[1].response)
              /\ inv[1].selectedExperiment = client.assigned
              /\ inv[1].draws = 0
              /\ inv[1].r = NoDraw

\* Assigned B, next to an unrelated cookie, and served twice since.
C3_Witness ==
    /\ client.stores
    /\ client.assigned = cookieExperimentB
    /\ Len(client.jar) = 2
    /\ client.served = 2
    /\ client.redirects = 1

----------------------------------------------------------------------------
(* C9 *)

\* C9: a viewer that stores no cookie, and so never sends a marker, gets a
\* redirect for every request, whatever its URI; none of its requests is
\* passed through.
C9_AlwaysRedirected ==
    ~client.stores =>
        /\ client.served = 0
        /\ client.redirects = client.sent - (IF client.waiting THEN 1 ELSE 0)
        /\ inv[1].pc # "thrown"
        /\ inv[1].pc \in {"emit", "done"} =>
              /\ IsRedirect(inv[1].response)
              /\ inv[1].draws = 1

\* The request for the Location of the last redirect is redirected again,
\* and to the other experiment.
C9_Witness ==
    /\ ~client.stores
    /\ inv[1].pc = "done"
    /\ client.redirects >= 1
    /\ client.follow = groupBUri
    /\ inv[1].request.uri = groupBUri
    /\ client.lastSetCookie = cookieExperimentB
    /\ IsRedirect(inv[1].result)
    /\ SetCookieOf(inv[1].result) = cookieExperimentA

----------------------------------------------------------------------------
(* SpecPipeline: executions of the declared pipeline.                      *)

NextPipeline ==
    \/ \E e \in Executions : StartExecution(e)
    \/ \E e \in Executions : RunAction(e)
    \/ \E e \in Executions : FailAction(e)
    \/ \E e \in Executions : Approve(e)
    \/ \E e \in Executions : Reject(e)
    \/ \E e \in Executions : Deploy(e)

SpecPipeline == Init /\ [][NextPipeline]_vars

----------------------------------------------------------------------------
(* C10 *)

Position(log, name) == CHOOSE j \in 1..Len(log) : log[j] = name

Done(log, name) == \E j \in 1..Len(log) : log[j] = name

StageNames == [j \in 1..Len(PipelineStages) |-> PipelineStages[j].name]

StagePosition(name) == CHOOSE j \in 1..Len(StageNames) : StageNames[j] = name

\* C10: the declared stages are in the order Source, Build (CDK synth),
\* BuildVue, ApprovalStage, DeployStage; an execution has run DeployVue only
\* if ApproveDeploy was approved before it and BuildVue, before that, made
\* the VueBuildOutput artifact; the bucket holds the output of an approved
\* execution or nothing.
C10_DeployAfterApproval ==
    /\ StagePosition("Source") < StagePosition("Build")
    /\ StagePosition("Build") < StagePosition("BuildVue")
    /\ StagePosition("BuildVue") < StagePosition("ApprovalStage")
    /\ StagePosition("ApprovalStage") < StagePosition("DeployStage")
    /\ \A e \in Executions :
          LET x == pipeline.exec[e]
          IN  /\ Done(x.log, "DeployVue") =>
                    /\ x.approval = "approved"
                    /\ "VueBuildOutput" \in x.artifacts
                    /\ Done(x.log, "BuildVue") /\ Done(x.log, "ApproveDeploy")
                    /\ Position(x.log, "BuildVue") < Position(x.log, "ApproveDeploy")
                    /\ Position(x.log, "ApproveDeploy") < Position(x.log, "DeployVue")
              /\ x.approval # "approved" => ~Done(x.log, "DeployVue") /\ pipeline.bucket # e
    /\ pipeline.bucket # 0 => pipeline.exec[pipeline.bucket].approval = "approved"

\* One execution has deployed, another was rejected at ApproveDeploy.
C10_Witness ==
    \E d, e \in Executions :
        /\ Done(pipeline.exec[d].log, "DeployVue")
        /\ pipeline.bucket = d
        /\ pipeline.exec[e].approval = "rejected"
        /\ pipeline.exec[e].status = "failed"
        /\ Done(pipeline.exec[e].log, "BuildVue")

====
